---- MODULE Spec2Model ----
(***************************************************************************)
(* auto-route53: the DDNS reconciliation loop (runDDNSLoop), its legacy    *)
(* predecessor (the second program of src/main.go, lines 341-536), the      *)
(* startup sequence of main and the per-record Nginx Proxy Manager tasks.  *)
(*                                                                         *)
(* Strings the program inspects character by character (the body of the    *)
(* IP service's answer, the IP kept in data/last_ip.txt, the value of an   *)
(* A record) are sequences of one-character strings, so that TrimSpace and *)
(* the legacy "drop the last byte" are computed, not assumed.              *)
(*                                                                         *)
(* Collaborators (the IP service, Route 53, the file system, NPM) answer   *)
(* nondeterministically with every outcome the calling code distinguishes. *)
(* A call that reports an error has had no effect on the collaborator.     *)
(***************************************************************************)
EXTENDS Integers, Sequences, FiniteSets, Bags, TLC

\* ------------------------------------------------------------- bounds
MaxRecords == 2
MaxBodyLen == 2

\* ---------------------------------------------------- program constants
StatusOK == 200
RecordTTL == 300
AuthAttempts == 5

\* --------------------------------------------------------- value sets
Chars == {"1", "\n"}
Whitespace == {"\n", " ", "\t", "\r"}
SeqsUpTo(S, n) == UNION {[1..k -> S] : k \in 0..n}
Bodies == SeqsUpTo(Chars, MaxBodyLen)
Names == {"a.com", "b.com"}
Zones == {"Z1"}
Ports == {0, 4000}
Builds == {"main", "legacy"}

RecordConfig == [ZoneID : Zones, RecordName : Names, TLS : BOOLEAN, Port : Ports]

\* The answers of https://checkip.amazonaws.com/ as http.Get and io.ReadAll
\* report them: a transport error, or a status, a body and a read error.
Responses ==
    {[err |-> TRUE, StatusCode |-> 0, readErr |-> FALSE, body |-> <<>>]}
    \cup [err : {FALSE}, StatusCode : {StatusOK, 503}, readErr : BOOLEAN, body : Bodies]

\* -------------------------------------------------------- pure helpers

RECURSIVE TrimLeft(_)
TrimLeft(s) ==
    IF s # <<>> /\ Head(s) \in Whitespace THEN TrimLeft(Tail(s)) ELSE s

RECURSIVE TrimRight(_)
TrimRight(s) ==
    IF s # <<>> /\ s[Len(s)] \in Whitespace
    THEN TrimRight(SubSeq(s, 1, Len(s) - 1))
    ELSE s

TrimSpace(s) == TrimRight(TrimLeft(s))

\* getPublicIP of main.go: (ip, err); it cannot panic.
getPublicIP(resp) ==
    IF resp.err THEN [ip |-> <<>>, err |-> TRUE, panic |-> FALSE]
    ELSE IF resp.StatusCode # StatusOK THEN [ip |-> <<>>, err |-> TRUE, panic |-> FALSE]
    ELSE IF resp.readErr THEN [ip |-> <<>>, err |-> TRUE, panic |-> FALSE]
    ELSE [ip |-> TrimSpace(resp.body), err |-> FALSE, panic |-> FALSE]

\* getPublicIP of the legacy program: ipBytes[:len(ipBytes)-1] panics with
\* "slice bounds out of range" on an empty body.
getPublicIPLegacy(resp) ==
    IF resp.err THEN [ip |-> <<>>, err |-> TRUE, panic |-> FALSE]
    ELSE IF resp.StatusCode # StatusOK THEN [ip |-> <<>>, err |-> TRUE, panic |-> FALSE]
    ELSE IF resp.readErr THEN [ip |-> <<>>, err |-> TRUE, panic |-> FALSE]
    ELSE IF Len(resp.body) = 0 THEN [ip |-> <<>>, err |-> FALSE, panic |-> TRUE]
    ELSE [ip |-> SubSeq(resp.body, 1, Len(resp.body) - 1), err |-> FALSE, panic |-> FALSE]

\* A file: absent, or present with its content.
NoFile == [exists |-> FALSE, data |-> <<>>]
FileOf(s) == [exists |-> TRUE, data |-> s]

\* getStoredString / getStoredIP: os.ReadFile, with IsNotExist mapped to
\* ("", nil). ioErr is a read failure of another kind (it needs the path to
\* exist or not, either way the data returned is empty).
getStoredString(file, ioErr) ==
    IF ~file.exists /\ ~ioErr THEN [s |-> <<>>, err |-> FALSE]
    ELSE IF ioErr THEN [s |-> <<>>, err |-> TRUE]
    ELSE [s |-> file.data, err |-> FALSE]

\* storeString / storeIP: os.WriteFile; the new file and the error.
storeString(file, value, ioErr) ==
    IF ioErr THEN [file |-> file, err |-> TRUE]
    ELSE [file |-> FileOf(value), err |-> FALSE]

\* The resource record set an UPSERT of updateRoute53Record carries.
ResourceRecordSet(recordName, value) ==
    [Name |-> recordName, Type |-> "A", TTL |-> RecordTTL, ResourceRecords |-> <<value>>]

NoRecordSet == [Name |-> "", Type |-> "", TTL |-> 0, ResourceRecords |-> <<>>]

\* Faulty variant: an UPSERT that adds the value to the values the record set holds.
updateRoute53RecordAdding(zones, zoneID, recordName, value, awsErr) ==
    IF awsErr THEN [zones |-> zones, err |-> TRUE]
    ELSE [zones |-> [zones EXCEPT ![<<zoneID, recordName>>] =
                        [Name |-> recordName, Type |-> "A", TTL |-> RecordTTL,
                         ResourceRecords |-> Append(@.ResourceRecords, value)]],
          err |-> FALSE]

\* updateRoute53Record: ChangeResourceRecordSets with one UPSERT change. The
\* hosted zones are keyed by zone and name; awsErr is a rejected or failed call.
updateRoute53Record(zones, zoneID, recordName, value, awsErr) ==
    IF awsErr THEN [zones |-> zones, err |-> TRUE]
    ELSE [zones |-> [zones EXCEPT ![<<zoneID, recordName>>] =
                        ResourceRecordSet(recordName, value)],
          err |-> FALSE]

\* findExistingProxyHost: GET /api/nginx/proxy-hosts, then the first listed host
\* one of whose domain names is domainName. httpErr is a transport error or a
\* non-success status.
\* Faulty variant: a lookup that looks at no host of the list.
findExistingProxyHostNone(hosts, domainName, httpErr) ==
    [found |-> FALSE, err |-> httpErr]

findExistingProxyHost(hosts, domainName, httpErr) ==
    IF httpErr THEN [found |-> FALSE, err |-> TRUE]
    ELSE [found |-> \E h \in BagToSet(hosts) :
                       \E j \in 1..Len(h.DomainNames) : h.DomainNames[j] = domainName,
          err |-> FALSE]

\* The payload createProxyHost posts. With tls the controller is told to fetch
\* a new Let's Encrypt certificate (certificate_id = "new") and SSL is forced.
\* (redirect_to_https only sets the same three flags and is left out.)
ProxyHostPayload(record) ==
    [domain_names |-> <<record.RecordName>>,
     forward_port |-> record.Port,
     certificate_id |-> IF record.TLS THEN "new" ELSE "",
     ssl_forced |-> record.TLS]

\* createProxyHost: POST /api/nginx/proxy-hosts; on success the controller
\* holds one more host.
createProxyHost(hosts, record, httpErr) ==
    IF httpErr THEN [hosts |-> hosts, err |-> TRUE]
    ELSE [hosts |-> hosts (+) SetToBag({[DomainNames |-> ProxyHostPayload(record).domain_names,
                                         ForwardPort |-> ProxyHostPayload(record).forward_port,
                                         Certificate |-> ProxyHostPayload(record).certificate_id = "new"]}),
          err |-> FALSE]

\* Faulty variant: the port of the record is not looked at.
wantsProxyAnyPort(record, client) == client # "nil"

\* The condition under which main starts a proxy task for a record.
wantsProxy(record, client) == record.Port > 0 /\ client # "nil"

\* Faulty variant: a comparison that takes an empty stored value for "nothing to do".
ipChangedUnlessEmpty(pub, stored) == pub # stored /\ stored # <<>>

\* The comparison of runDDNSLoop (publicIP != storedIP).
ipChanged(pub, stored) == pub # stored

\* ------------------------------------------------------------ state

VARIABLES
    build,       \* which of the two programs of src/main.go runs
    appConfig,   \* AppConfig, as loadConfig returns it
    mainPc,      \* where main is
    exitCode,    \* the exit status once the process has ended (0 while it runs)
    ipFile,      \* data/last_ip.txt
    r53,         \* Route 53: (zone, name) -> resource record set
    loopPc,      \* where the reconciliation loop is
    publicIP,    \* runDDNSLoop's publicIP
    storedIP,    \* runDDNSLoop's storedIP
    idx,         \* position of the range loop over RecordsToUpdate
    allUpdated,  \* runDDNSLoop's allUpdated
    tick,        \* history: what the present tick has done
    prev,        \* history: what the previous tick did
    calm,        \* the run's collaborators: TRUE when none but NPM can fail
    npmClient,   \* main's npmClient: "nil" or "client"
    authTry,     \* NewNpmClient's i
    launchIdx,   \* position of main's range loop that launches the proxy tasks
    task,        \* the proxy task of each record: where it is and what it has called
    npmHosts,    \* Nginx Proxy Manager: the bag of its proxy hosts
    certFiles,   \* the domains with a certificate state file under data/
    settled      \* whether the world has settled: the IP service answers body, nothing fails

\* The configuration and the world the process runs in: set once.
envVars == <<build, appConfig, calm, certFiles, settled>>
\* The locals of runDDNSLoop and what it acts on, with their history.
loopVars == <<ipFile, r53, loopPc, publicIP, storedIP, idx, allUpdated, tick, prev>>
\* The NPM client, the proxy tasks and the controller.
npmVars == <<npmClient, authTry, launchIdx, task, npmHosts>>
vars == <<build, appConfig, calm, certFiles, mainPc, exitCode, ipFile, r53, loopPc,
          publicIP, storedIP, idx, allUpdated, tick, prev, npmClient,
          authTry, launchIdx, task, npmHosts, settled>>

Records == appConfig.RecordsToUpdate
NRecords == Len(Records)

\* The calls ups are one UPSERT of value for each configured record, in the
\* order of the configuration.
AllAttempted(ups, value) ==
    /\ Len(ups) = Len(Records)
    /\ \A i \in 1..Len(ups) :
          /\ ups[i].zone = Records[i].ZoneID
          /\ ups[i].name = Records[i].RecordName
          /\ ups[i].value = value

\* ... and every one of them succeeded.
AllUpserted(ups, value) ==
    AllAttempted(ups, value) /\ \A i \in 1..Len(ups) : ups[i].ok

Keys == Zones \X Names

\* The history of a tick as it starts.
NewTick ==
    [fetched |-> FALSE, readErr |-> FALSE, drift |-> FALSE,
     ups |-> <<>>, wrote |-> "no", log |-> {}]

Failures(ups) == Cardinality({i \in 1..Len(ups) : ~ups[i].ok})

\* What is remembered of a tick once it has ended.
Summary(t) == [ran |-> TRUE, drift |-> t.drift, failures |-> Failures(t.ups)]
NoTick == [ran |-> FALSE, drift |-> FALSE, failures |-> 0]

\* The AppConfig values loadConfig can return. The legacy RecordConfig has no
\* tls and no port, and the legacy AppConfig no NPM settings.
AppConfigs ==
    [RecordsToUpdate : SeqsUpTo(RecordConfig, MaxRecords),
     NPMBaseURL : BOOLEAN, NPMIdentity : BOOLEAN, ForwardHost : BOOLEAN]

\* The two names are interchangeable: a first record, if any, is a.com.
FirstIsA(records) == Len(records) >= 1 => records[1].RecordName = "a.com"

\* Configurations without any proxy setting, the only ones the legacy
\* program knows.
PlainConfigs ==
    {c \in AppConfigs :
        /\ ~c.NPMBaseURL /\ ~c.NPMIdentity /\ ~c.ForwardHost
        /\ FirstIsA(c.RecordsToUpdate)
        /\ \A i \in 1..Len(c.RecordsToUpdate) :
              ~c.RecordsToUpdate[i].TLS /\ c.RecordsToUpdate[i].Port = 0}

\* Configurations of the proxy feature: NPM_URL is set and there is a record.
ProxyConfigs ==
    {c \in AppConfigs :
        /\ c.NPMBaseURL
        /\ Len(c.RecordsToUpdate) >= 1
        /\ FirstIsA(c.RecordsToUpdate)}

NoTask == [pc |-> "none", calls |-> <<>>, result |-> ""]

\* The proxy hosts the controller may hold as the process starts.
InitialHosts ==
    {EmptyBag, SetToBag({[DomainNames |-> <<"a.com">>, ForwardPort |-> 4000, Certificate |-> FALSE]})}

Init ==
    /\ build \in Builds
    /\ calm \in BOOLEAN
    /\ IF calm
       THEN /\ build = "main"
            /\ appConfig \in ProxyConfigs
            /\ npmHosts \in InitialHosts
            /\ certFiles \in {{}, Names}
       ELSE /\ appConfig \in PlainConfigs
            /\ npmHosts = EmptyBag
            /\ certFiles = {}
    /\ npmClient = "nil"
    /\ authTry = 0
    /\ launchIdx = 0
    /\ task = [i \in 1..MaxRecords |-> NoTask]
    /\ mainPc = "loadConfig"
    /\ exitCode = 0
    /\ ipFile = NoFile
    /\ r53 = [k \in Keys |-> NoRecordSet]
    /\ loopPc = "notStarted"
    /\ publicIP = <<>>
    /\ storedIP = <<>>
    /\ idx = 0
    /\ allUpdated = FALSE
    /\ tick = NewTick
    /\ prev = NoTick
    /\ settled = [on |-> FALSE, body |-> <<>>]

\* What the collaborators can answer in this run.
OKAnswer(body) == [err |-> FALSE, StatusCode |-> StatusOK, readErr |-> FALSE, body |-> body]
IPAnswers ==
    IF settled.on THEN {OKAnswer(settled.body)}
    ELSE IF calm THEN {OKAnswer(<<"1", "\n">>)}
    ELSE Responses
IOErrs == IF calm \/ settled.on THEN {FALSE} ELSE BOOLEAN
AWSErrs == IF calm \/ settled.on THEN {FALSE} ELSE BOOLEAN

\* The IP the running program makes of an answer of the IP service.
Fetched(resp) == IF build = "main" THEN getPublicIP(resp) ELSE getPublicIPLegacy(resp)

\* ------------------------------------------------------------- main

\* loadConfig: an invalid SLEEP_TIME or RECORDS_TO_UPDATE is fatal
\* (log.Fatalf exits with status 1).
LoadConfig ==
    /\ mainPc = "loadConfig"
    /\ \E ok \in BOOLEAN :
          IF ok THEN mainPc' = "awsConfig" /\ exitCode' = exitCode
          ELSE mainPc' = "exited" /\ exitCode' = 1
    /\ UNCHANGED <<envVars, npmVars, loopVars>>

\* Faulty variant: main starts the loop goroutine before it builds the NPM
\* client, so that the loop runs during the authentication attempts.
LoadAWSConfigSpawningLoop ==
    /\ mainPc = "awsConfig"
    /\ \E ok \in BOOLEAN :
          IF ~ok THEN mainPc' = "exited" /\ exitCode' = 1 /\ UNCHANGED <<loopPc, tick>>
          ELSE IF build = "legacy"
               THEN /\ mainPc' = "loop" /\ exitCode' = exitCode
                    /\ loopPc' = "fetch" /\ tick' = NewTick
               ELSE /\ mainPc' = "auth" /\ exitCode' = exitCode
                    /\ loopPc' = "fetch" /\ tick' = NewTick
    /\ UNCHANGED <<envVars, npmVars, ipFile, r53, publicIP, storedIP, idx, allUpdated,
                   prev>>

\* config.LoadDefaultConfig: fatal on error. The legacy main then enters its
\* loop itself; main goes on to the NPM client.
LoadAWSConfig ==
    /\ mainPc = "awsConfig"
    /\ \E ok \in BOOLEAN :
          IF ~ok THEN mainPc' = "exited" /\ exitCode' = 1 /\ UNCHANGED <<loopPc, tick>>
          ELSE IF build = "legacy"
               THEN /\ mainPc' = "loop" /\ exitCode' = exitCode
                    /\ loopPc' = "fetch" /\ tick' = NewTick
               ELSE mainPc' = "auth" /\ exitCode' = exitCode /\ UNCHANGED <<loopPc, tick>>
    /\ UNCHANGED <<envVars, npmVars, ipFile, r53, publicIP, storedIP, idx, allUpdated,
                   prev>>

\* main: the NPM client is built only if NPM_URL and NPM_IDENTITY are set.
SkipNpm ==
    /\ mainPc = "auth"
    /\ ~(appConfig.NPMBaseURL /\ appConfig.NPMIdentity)
    /\ mainPc' = "spawnLoop"
    /\ UNCHANGED <<envVars, exitCode, npmVars, loopVars>>

\* Faulty variant: the loop of NewNpmClient runs once too often (i <= 5).
AuthenticateOnceMore ==
    /\ mainPc = "auth"
    /\ appConfig.NPMBaseURL /\ appConfig.NPMIdentity
    /\ authTry <= AuthAttempts
    /\ \E ok \in BOOLEAN :
          IF ok
          THEN npmClient' = "client" /\ mainPc' = "spawnLoop" /\ authTry' = 0
          ELSE /\ npmClient' = npmClient
               /\ IF authTry + 1 = AuthAttempts + 1
                  THEN mainPc' = "spawnLoop" /\ authTry' = 0
                  ELSE mainPc' = "auth" /\ authTry' = authTry + 1
    /\ UNCHANGED <<envVars, exitCode, launchIdx, task, npmHosts, loopVars>>

\* Faulty variant: main ends the process when NewNpmClient gives up (log.Fatalf).
AuthenticateFatal ==
    /\ mainPc = "auth"
    /\ appConfig.NPMBaseURL /\ appConfig.NPMIdentity
    /\ authTry < AuthAttempts
    /\ \E ok \in BOOLEAN :
          IF ok
          THEN /\ npmClient' = "client" /\ mainPc' = "spawnLoop" /\ authTry' = 0
               /\ exitCode' = exitCode
          ELSE /\ authTry' = authTry + 1
               /\ npmClient' = npmClient
               /\ mainPc' = IF authTry + 1 = AuthAttempts THEN "exited" ELSE "auth"
               /\ exitCode' = IF authTry + 1 = AuthAttempts THEN 1 ELSE exitCode
    /\ UNCHANGED <<envVars, launchIdx, task, npmHosts, loopVars>>

\* NewNpmClient: one pass of its loop, a POST /api/tokens. A success returns
\* the client; a failure sleeps 15 seconds, and the fifth failure returns
\* (nil, error), which main logs before it goes on without a client. The
\* counter i is a local of NewNpmClient and is gone when it returns.
Authenticate ==
    /\ mainPc = "auth"
    /\ appConfig.NPMBaseURL /\ appConfig.NPMIdentity
    /\ authTry < AuthAttempts
    /\ \E ok \in BOOLEAN :
          IF ok
          THEN npmClient' = "client" /\ mainPc' = "spawnLoop" /\ authTry' = 0
          ELSE /\ npmClient' = npmClient
               /\ IF authTry + 1 = AuthAttempts
                  THEN mainPc' = "spawnLoop" /\ authTry' = 0
                  ELSE mainPc' = "auth" /\ authTry' = authTry + 1
    /\ UNCHANGED <<envVars, exitCode, launchIdx, task, npmHosts, loopVars>>

\* Faulty variant: main clears the state file before it starts the loop.
SpawnLoopResettingFile ==
    /\ mainPc = "spawnLoop"
    /\ mainPc' = "launch"
    /\ launchIdx' = 1
    /\ loopPc' = "fetch"
    /\ tick' = NewTick
    /\ ipFile' = FileOf(<<>>)
    /\ UNCHANGED <<envVars, exitCode, npmClient, authTry, task, npmHosts, r53,
                   publicIP, storedIP, idx, allUpdated, prev>>

\* go func() { runDDNSLoop(...) }()
SpawnLoop ==
    /\ mainPc = "spawnLoop"
    /\ mainPc' = "launch"
    /\ launchIdx' = 1
    /\ loopPc' = "fetch"
    /\ tick' = NewTick
    /\ UNCHANGED <<envVars, exitCode, npmClient, authTry, task, npmHosts, ipFile, r53,
                   publicIP, storedIP, idx, allUpdated, prev>>

\* Faulty variant: the loop is not in the WaitGroup, and main returns from
\* wg.Wait when no task is left running.
LaunchTaskThenReturn ==
    /\ mainPc = "launch"
    /\ IF launchIdx > NRecords
       THEN /\ mainPc' = IF \A i \in 1..MaxRecords : task[i].pc \in {"none", "done"}
                         THEN "exited" ELSE "wait"
            /\ UNCHANGED <<launchIdx, task>>
       ELSE /\ mainPc' = mainPc
            /\ launchIdx' = launchIdx + 1
            /\ IF wantsProxy(Records[launchIdx], npmClient) /\ appConfig.ForwardHost
               THEN task' = [task EXCEPT ![launchIdx].pc = "find"]
               ELSE task' = task
    /\ UNCHANGED <<envVars, exitCode, npmClient, authTry, npmHosts, loopVars>>

\* Faulty variant: a task is started at the create request, without the lookup.
LaunchTaskSkippingLookup ==
    /\ mainPc = "launch"
    /\ IF launchIdx > NRecords
       THEN mainPc' = "wait" /\ UNCHANGED <<launchIdx, task>>
       ELSE /\ mainPc' = mainPc
            /\ launchIdx' = launchIdx + 1
            /\ IF wantsProxy(Records[launchIdx], npmClient) /\ appConfig.ForwardHost
               THEN task' = [task EXCEPT ![launchIdx].pc = "create"]
               ELSE task' = task
    /\ UNCHANGED <<envVars, exitCode, npmClient, authTry, npmHosts, loopVars>>

\* Faulty variant: the launch loop does not look at FORWARD_HOST_IP.
LaunchTaskAnyForwardHost ==
    /\ mainPc = "launch"
    /\ IF launchIdx > NRecords
       THEN mainPc' = "wait" /\ UNCHANGED <<launchIdx, task>>
       ELSE /\ mainPc' = mainPc
            /\ launchIdx' = launchIdx + 1
            /\ IF wantsProxy(Records[launchIdx], npmClient)
               THEN task' = [task EXCEPT ![launchIdx].pc = "find"]
               ELSE task' = task
    /\ UNCHANGED <<envVars, exitCode, npmClient, authTry, npmHosts, loopVars>>

\* One pass of main's range loop over RecordsToUpdate: a proxy task is started
\* for a record with a port when there is a client, unless FORWARD_HOST_IP is
\* empty. After the last record main waits on the WaitGroup, for ever.
LaunchTask ==
    /\ mainPc = "launch"
    /\ IF launchIdx > NRecords
       THEN mainPc' = "wait" /\ UNCHANGED <<launchIdx, task>>
       ELSE /\ mainPc' = mainPc
            /\ launchIdx' = launchIdx + 1
            /\ IF wantsProxy(Records[launchIdx], npmClient) /\ appConfig.ForwardHost
               THEN task' = [task EXCEPT ![launchIdx].pc = "find"]
               ELSE task' = task
    /\ UNCHANGED <<envVars, exitCode, npmClient, authTry, npmHosts, loopVars>>

\* --------------------------------------------------- the proxy tasks

\* Faulty variant: the error of the lookup is dropped, and "no host found"
\* leads on to the create request.
FindExistingIgnoringError(i) ==
    /\ task[i].pc = "find"
    /\ \E httpErr \in BOOLEAN :
          LET r == findExistingProxyHost(npmHosts, Records[i].RecordName, httpErr) IN
          task' = [task EXCEPT ![i] =
                      [pc |-> IF r.found THEN "done" ELSE "create",
                       calls |-> Append(@.calls, "list-hosts"),
                       result |-> IF r.found THEN "exists" ELSE ""]]
    /\ UNCHANGED <<envVars, mainPc, exitCode, npmClient, authTry, launchIdx, npmHosts,
                   loopVars>>

\* Faulty variant: an error of the lookup is fatal to the process (log.Fatalf).
FindExistingFatal(i) ==
    /\ task[i].pc = "find"
    /\ \E httpErr \in BOOLEAN :
          LET r == findExistingProxyHost(npmHosts, Records[i].RecordName, httpErr) IN
          /\ task' = [task EXCEPT ![i] =
                         [pc |-> IF r.err \/ r.found THEN "done" ELSE "create",
                          calls |-> Append(@.calls, "list-hosts"),
                          result |-> IF r.err THEN "error"
                                     ELSE IF r.found THEN "exists" ELSE ""]]
          /\ mainPc' = IF r.err THEN "exited" ELSE mainPc
          /\ exitCode' = IF r.err THEN 1 ELSE exitCode
    /\ UNCHANGED <<envVars, npmClient, authTry, launchIdx, npmHosts, loopVars>>

\* Faulty variant: a task that ended with an error runs again from its start.
FindExistingRestarting(i) ==
    /\ task[i].pc = "find" \/ (task[i].pc = "done" /\ task[i].result = "error")
    /\ \E httpErr \in BOOLEAN :
          LET r == findExistingProxyHost(npmHosts, Records[i].RecordName, httpErr) IN
          task' = [task EXCEPT ![i] =
                      [pc |-> IF r.err \/ r.found THEN "done" ELSE "create",
                       calls |-> <<"list-hosts">>,
                       result |-> IF r.err THEN "error"
                                  ELSE IF r.found THEN "exists" ELSE ""]]
    /\ UNCHANGED <<envVars, mainPc, exitCode, npmClient, authTry, launchIdx, npmHosts,
                   loopVars>>

\* manageNginxProxy, first half: findExistingProxyHost. An error is logged and
\* the task returns; a host found ends the task; otherwise the host is created.
FindExisting(i) ==
    /\ task[i].pc = "find"
    /\ \E httpErr \in BOOLEAN :
          LET r == findExistingProxyHost(npmHosts, Records[i].RecordName, httpErr) IN
          task' = [task EXCEPT ![i] =
                      [pc |-> IF r.err \/ r.found THEN "done" ELSE "create",
                       calls |-> Append(@.calls, "list-hosts"),
                       result |-> IF r.err THEN "error"
                                  ELSE IF r.found THEN "exists" ELSE ""]]
    /\ UNCHANGED <<envVars, mainPc, exitCode, npmClient, authTry, launchIdx, npmHosts,
                   loopVars>>

\* Faulty variant: a task that repeats the create request until it succeeds.
CreateHostRetrying(i) ==
    /\ task[i].pc = "create"
    /\ \E httpErr \in BOOLEAN :
          LET r == createProxyHost(npmHosts, Records[i], httpErr) IN
          /\ npmHosts' = r.hosts
          /\ task' = [task EXCEPT ![i] =
                         [pc |-> IF r.err THEN "create" ELSE "done",
                          calls |-> IF Len(@.calls) < 3 THEN Append(@.calls, "create-host")
                                    ELSE @.calls,
                          result |-> IF r.err THEN "error" ELSE "created"]]
    /\ UNCHANGED <<envVars, mainPc, exitCode, npmClient, authTry, launchIdx, loopVars>>

\* manageNginxProxy, second half: createProxyHost, whose error is logged.
CreateHost(i) ==
    /\ task[i].pc = "create"
    /\ \E httpErr \in BOOLEAN :
          LET r == createProxyHost(npmHosts, Records[i], httpErr) IN
          /\ npmHosts' = r.hosts
          /\ task' = [task EXCEPT ![i] =
                         [pc |-> "done",
                          calls |-> Append(@.calls, "create-host"),
                          result |-> IF r.err THEN "error" ELSE "created"]]
    /\ UNCHANGED <<envVars, mainPc, exitCode, npmClient, authTry, launchIdx, loopVars>>

manageNginxProxy == \E i \in 1..MaxRecords : FindExisting(i) \/ CreateHost(i)

\* --------------------------------------------- the reconciliation loop

\* Faulty variant: a fetch whose error is dropped: the tick goes on with the old publicIP.
FetchPublicIPDroppingError ==
    /\ loopPc = "fetch"
    /\ \E resp \in IPAnswers :
          LET r == Fetched(resp) IN
          IF r.panic
          THEN /\ loopPc' = "crashed" /\ mainPc' = "exited" /\ exitCode' = 2
               /\ UNCHANGED <<publicIP, tick>>
          ELSE /\ loopPc' = "read"
               /\ publicIP' = IF r.err THEN publicIP ELSE r.ip
               /\ tick' = [tick EXCEPT !.fetched = ~r.err]
               /\ UNCHANGED <<mainPc, exitCode>>
    /\ UNCHANGED <<envVars, npmVars, ipFile, r53, storedIP, idx, allUpdated, prev>>

\* publicIP, err := getPublicIP(); on an error both programs log and sleep.
\* A panic of the legacy getPublicIP ends the process (exit status 2).
FetchPublicIP ==
    /\ loopPc = "fetch"
    /\ \E resp \in IPAnswers :
          LET r == Fetched(resp) IN
          IF r.panic
          THEN /\ loopPc' = "crashed" /\ mainPc' = "exited" /\ exitCode' = 2
               /\ UNCHANGED <<publicIP, tick>>
          ELSE IF r.err
          THEN /\ loopPc' = "sleep"
               /\ UNCHANGED <<publicIP, tick, mainPc, exitCode>>
          ELSE /\ loopPc' = "read"
               /\ publicIP' = r.ip
               /\ tick' = [tick EXCEPT !.fetched = TRUE]
               /\ UNCHANGED <<mainPc, exitCode>>
    /\ UNCHANGED <<envVars, npmVars, ipFile, r53, storedIP, idx, allUpdated, prev>>

\* main.go: storedIP, _ := getStoredString(ipStateFile), the error dropped
\* (and so not logged); legacy: a read error is logged and the tick ends. Then
\* the comparison. tick.log holds the persistence errors the tick has logged.
ReadStoredIP ==
    /\ loopPc = "read"
    /\ \E ioErr \in IOErrs :
          LET r == getStoredString(ipFile, ioErr) IN
          IF build = "legacy" /\ r.err
          THEN /\ loopPc' = "sleep"
               /\ tick' = [tick EXCEPT !.readErr = TRUE, !.log = @ \cup {"read"}]
               /\ UNCHANGED <<storedIP, idx, allUpdated>>
          ELSE /\ storedIP' = r.s
               /\ IF ipChanged(publicIP, r.s)
                  THEN /\ loopPc' = "upsert" /\ idx' = 1 /\ allUpdated' = TRUE
                       /\ tick' = [tick EXCEPT !.readErr = r.err, !.drift = TRUE]
                  ELSE /\ loopPc' = "sleep" /\ UNCHANGED <<idx, allUpdated>>
                       /\ tick' = [tick EXCEPT !.readErr = r.err]
    /\ UNCHANGED <<envVars, mainPc, exitCode, npmVars, ipFile, r53, publicIP, prev>>

\* Faulty variant: a range loop that breaks at the first UPSERT that fails.
UpsertRecordStoppingAtFailure ==
    /\ loopPc = "upsert"
    /\ idx <= NRecords
    /\ \E awsErr \in AWSErrs :
          LET record == Records[idx]
              r == updateRoute53Record(r53, record.ZoneID, record.RecordName, publicIP, awsErr)
              call == [zone |-> record.ZoneID, name |-> record.RecordName,
                       value |-> publicIP, ok |-> ~r.err]
          IN /\ r53' = r.zones
             /\ allUpdated' = (allUpdated /\ ~r.err)
             /\ tick' = [tick EXCEPT !.ups = Append(@, call)]
             /\ idx' = IF r.err THEN NRecords + 1 ELSE idx + 1
    /\ UNCHANGED <<envVars, mainPc, exitCode, npmVars, ipFile, loopPc, publicIP, storedIP,
                   prev>>

\* Faulty variant: a range loop that passes over a record Route 53 already holds with
\* the fetched value, so that a retry touches only what failed.
UpsertRecordOnlyStale ==
    /\ loopPc = "upsert"
    /\ idx <= NRecords
    /\ \E awsErr \in AWSErrs :
          LET record == Records[idx]
              r == updateRoute53Record(r53, record.ZoneID, record.RecordName, publicIP, awsErr)
              call == [zone |-> record.ZoneID, name |-> record.RecordName,
                       value |-> publicIP, ok |-> ~r.err]
          IN IF r53[<<record.ZoneID, record.RecordName>>]
                    = ResourceRecordSet(record.RecordName, publicIP)
             THEN UNCHANGED <<r53, allUpdated, tick>>
             ELSE /\ r53' = r.zones
                  /\ allUpdated' = (allUpdated /\ ~r.err)
                  /\ tick' = [tick EXCEPT !.ups = Append(@, call)]
    /\ idx' = idx + 1
    /\ UNCHANGED <<envVars, mainPc, exitCode, npmVars, ipFile, loopPc, publicIP, storedIP,
                   prev>>

\* One pass of the range loop: updateRoute53Record for RecordsToUpdate[idx].
UpsertRecord ==
    /\ loopPc = "upsert"
    /\ idx <= NRecords
    /\ \E awsErr \in AWSErrs :
          LET record == Records[idx]
              r == updateRoute53Record(r53, record.ZoneID, record.RecordName, publicIP, awsErr)
              call == [zone |-> record.ZoneID, name |-> record.RecordName,
                       value |-> publicIP, ok |-> ~r.err]
          IN /\ r53' = r.zones
             /\ allUpdated' = (allUpdated /\ ~r.err)
             /\ tick' = [tick EXCEPT !.ups = Append(@, call)]
    /\ idx' = idx + 1
    /\ UNCHANGED <<envVars, mainPc, exitCode, npmVars, ipFile, loopPc, publicIP, storedIP,
                   prev>>

\* Faulty variant: the new IP is stored whether or not every UPSERT succeeded.
StoreNewIPAlways ==
    /\ loopPc = "upsert"
    /\ idx > NRecords
    /\ \E ioErr \in IOErrs :
          LET r == storeString(ipFile, publicIP, ioErr) IN
          /\ ipFile' = r.file
          /\ tick' = [tick EXCEPT !.wrote = IF r.err THEN "failed" ELSE "ok"]
    /\ loopPc' = "sleep"
    /\ UNCHANGED <<envVars, mainPc, exitCode, npmVars, r53, publicIP, storedIP, idx, allUpdated,
                   prev>>

\* After the range loop: if allUpdated, storeString(ipStateFile, publicIP);
\* a failure of the write is logged.
StoreNewIP ==
    /\ loopPc = "upsert"
    /\ idx > NRecords
    /\ IF allUpdated
       THEN \E ioErr \in IOErrs :
               LET r == storeString(ipFile, publicIP, ioErr) IN
               /\ ipFile' = r.file
               /\ tick' = [tick EXCEPT !.wrote = IF r.err THEN "failed" ELSE "ok",
                                        !.log = IF r.err THEN @ \cup {"write"} ELSE @]
       ELSE UNCHANGED <<ipFile, tick>>
    /\ loopPc' = "sleep"
    /\ UNCHANGED <<envVars, mainPc, exitCode, npmVars, r53, publicIP, storedIP, idx, allUpdated,
                   prev>>

\* time.Sleep(appConfig.SleepTime), and the loop starts over.
Sleep ==
    /\ loopPc = "sleep"
    /\ loopPc' = "fetch"
    /\ prev' = Summary(tick)
    /\ tick' = NewTick
    /\ UNCHANGED <<envVars, mainPc, exitCode, npmVars, ipFile, r53, publicIP, storedIP, idx,
                   allUpdated>>

runDDNSLoop == FetchPublicIP \/ ReadStoredIP \/ UpsertRecord \/ StoreNewIP \/ Sleep

Next ==
    \/ LoadConfig
    \/ LoadAWSConfig
    \/ SkipNpm
    \/ Authenticate
    \/ SpawnLoop
    \/ LaunchTask
    \/ \E i \in 1..MaxRecords : FindExisting(i)
    \/ \E i \in 1..MaxRecords : CreateHost(i)
    \/ FetchPublicIP
    \/ ReadStoredIP
    \/ UpsertRecord
    \/ StoreNewIP
    \/ Sleep

Spec == Init /\ [][Next]_vars

\* The world settles, as a tick is about to start: from this tick on the
\* public IP stays what it is, the IP service reports it, and no fetch, read,
\* UPSERT or write fails.
Settle ==
    /\ ~calm /\ ~settled.on
    /\ loopPc = "fetch"
    /\ \E body \in Bodies :
          /\ ~Fetched(OKAnswer(body)).panic
          /\ Fetched(OKAnswer(body)).ip # <<>>
          /\ settled' = [on |-> TRUE, body |-> body]
    /\ UNCHANGED <<build, appConfig, calm, certFiles, mainPc, exitCode, npmVars, loopVars>>

\* The reconciliation loop alone, without NPM, in a world that may settle; the
\* goroutine of the loop is scheduled again and again.
NextDDNS ==
    \/ LoadConfig
    \/ LoadAWSConfig
    \/ SkipNpm
    \/ SpawnLoop
    \/ LaunchTask
    \/ FetchPublicIP
    \/ ReadStoredIP
    \/ UpsertRecord
    \/ StoreNewIP
    \/ Sleep
    \/ Settle

InitDDNS == Init /\ ~calm
FairSpec == InitDDNS /\ [][NextDDNS]_vars /\ WF_vars(runDDNSLoop)

\* ------------------------------------------------------------ claims

\* The tick has ended: the loop is about to sleep.
TickOver == loopPc = "sleep"

\* What a successful read of data/last_ip.txt yields (an absent file reads as
\* the empty string).
StoredValue == ipFile.data

\* The file has not been written in this tick, so it is as the tick found it.
FileAsFound == tick.wrote # "ok"

\* C1. In a tick whose fetched IP equals the IP stored in data/last_ip.txt, no
\* UPSERT is issued and the file is not written.
C1_NoUpsertWhenEqual ==
    (NRecords >= 1 /\ tick.fetched /\ FileAsFound /\ ipFile.exists /\ ipFile.data = publicIP)
        => (tick.ups = <<>> /\ tick.wrote = "no")

\* C2 as stated. On the first tick, nothing stored, every value the fetch
\* returns (the empty one included) is upserted to every configured record.
C2_AnyFetchedValuePublishes ==
    (TickOver /\ ~prev.ran /\ tick.fetched /\ ~tick.readErr)
        => AllAttempted(tick.ups, publicIP)

\* C2 as amended. On the first tick, nothing stored, every non-empty value the
\* fetch returns is taken for a change and upserted once to every configured
\* record, in order; the empty value equals what the absent file reads as and
\* is not published. (A legacy tick whose read fails ends before it compares.)
C2_NonEmptyValuePublishes ==
    (TickOver /\ ~prev.ran /\ tick.fetched /\ ~(build = "legacy" /\ tick.readErr))
        => IF publicIP # <<>>
           THEN tick.drift /\ AllAttempted(tick.ups, publicIP)
           ELSE ~tick.drift /\ tick.ups = <<>>

C2_Witness ==
    /\ TickOver /\ ~prev.ran /\ tick.fetched /\ publicIP # <<>>
    /\ NRecords = 2 /\ Len(tick.ups) = 2

\* C3. A tick in which exactly one UPSERT failed does not write the stored IP,
\* and the tick after it, if it fetches and reads a value that still differs
\* from the stored one, attempts the UPSERT of every configured record.
C3_PartialFailureRetriesAll ==
    /\ (TickOver /\ Failures(tick.ups) = 1) => tick.wrote = "no"
    /\ (TickOver /\ prev.ran /\ prev.failures = 1 /\ tick.fetched /\ ~tick.readErr
            /\ (tick.wrote = "ok" \/ publicIP # StoredValue))
          => AllAttempted(tick.ups, publicIP)

C3_Witness ==
    /\ TickOver /\ prev.ran /\ prev.failures = 1 /\ tick.fetched /\ ~tick.readErr
    /\ NRecords = 2 /\ Len(tick.ups) = 2 /\ tick.ups[1].ok /\ tick.ups[2].ok
    /\ r53[<<"Z1", "a.com">>] = ResourceRecordSet("a.com", publicIP)

\* C4. The stored IP is written only with the value fetched in the tick and
\* only after that tick upserted it to every configured record; the file,
\* absent at the start, changes in no other step, so that a stored IP is
\* always a value some tick has upserted to every record.
C4_StoredOnlyAfterAllUpserted ==
    [][/\ tick'.wrote # "no" => (tick'.fetched /\ AllUpserted(tick'.ups, publicIP'))
       /\ tick'.wrote = "ok" => ipFile' = FileOf(publicIP')
       /\ ipFile' # ipFile
             => /\ tick.wrote = "no" /\ tick'.wrote = "ok"
                /\ AllUpserted(tick'.ups, publicIP')
                /\ ipFile' = FileOf(publicIP')]_vars

C4_Witness ==
    /\ TickOver /\ tick.wrote = "ok" /\ NRecords = 2 /\ prev.ran /\ prev.failures = 1
    /\ ipFile.data # <<>>

\* C5. Once the world has settled with the public IP p (no record holding an
\* empty value), the loop eventually brings every configured record and the
\* stored IP to p.
SettledIP == Fetched(OKAnswer(settled.body)).ip
Converged ==
    /\ ipFile = FileOf(SettledIP)
    /\ \A i \in 1..NRecords :
          r53[<<Records[i].ZoneID, Records[i].RecordName>>]
             = ResourceRecordSet(Records[i].RecordName, SettledIP)
NoEmptyRecord == \A k \in Keys : r53[k].ResourceRecords # << <<>> >>
C5_Convergence == (settled.on /\ NoEmptyRecord) ~> Converged

\* C6. An UPSERT that follows a successful UPSERT with the same zone, name and
\* value leaves Route 53 as it was: the record set is of type A with TTL 300
\* and holds the value once.
C6_UpsertIdempotent ==
    [][\A k \in 2..MaxRecords + 1 :
          (Len(tick'.ups) = k /\ Len(tick.ups) = k - 1
             /\ tick'.ups[k].ok /\ tick'.ups[k - 1] = tick'.ups[k])
          => /\ r53' = r53
             /\ r53'[<<tick'.ups[k].zone, tick'.ups[k].name>>] =
                   [Name |-> tick'.ups[k].name, Type |-> "A", TTL |-> 300,
                    ResourceRecords |-> <<tick'.ups[k].value>>]]_vars

C6_Witness ==
    /\ Len(tick.ups) = 2 /\ tick.ups[1].ok /\ tick.ups[1] = tick.ups[2]
    /\ r53[<<"Z1", "a.com">>].ResourceRecords = <<publicIP>>

\* C7. A tick whose fetch failed does nothing else: it reads nothing, issues
\* no UPSERT, writes nothing and goes to the sleep.
C7_FailedFetchChangesNothing ==
    ~tick.fetched =>
        /\ loopPc \in {"notStarted", "fetch", "sleep", "crashed"}
        /\ tick.ups = <<>> /\ tick.wrote = "no" /\ ~tick.drift /\ ~tick.readErr

C7_Witness ==
    TickOver /\ ~tick.fetched /\ prev.ran /\ prev.failures = 1 /\ ~ipFile.exists

\* C8. The loop, once started, never stops: no tick outcome and no answer of
\* the IP service ends it or the process.
C8_LoopNeverStops ==
    loopPc # "notStarted" => (loopPc # "crashed" /\ mainPc # "exited")

\* The proxy hosts of the controller list the domain.
HostListed(domainName) ==
    \E h \in BagToSet(npmHosts) :
       \E j \in 1..Len(h.DomainNames) : h.DomainNames[j] = domainName
TaskCalls == {<<>>, <<"list-hosts">>, <<"list-hosts", "create-host">>}

Succeeded(i) == task[i].result \in {"exists", "created"}
Failed(i) == task[i].result = "error"

Running(i) == task[i].pc \in {"find", "create"}
Started(i) == task[i].pc # "none"

CertificateRequested(i) ==
    /\ Records[i].TLS
    /\ Len(task[i].calls) = 2 /\ task[i].calls[2] = "create-host"

\* C14, for the records that declare a port. With an authenticated client and
\* FORWARD_HOST_IP set, the task of a record with tls that is over without an
\* error has told the controller to request a certificate, whether or not a
\* proxy host of the domain existed.
C14_TLSRecordRequestsCertificate ==
    \A i \in 1..NRecords :
       (Records[i].TLS /\ Records[i].Port > 0 /\ task[i].pc = "done" /\ ~Failed(i))
           => CertificateRequested(i)

\* C15. The step in which a task fails changes nothing but that task: the
\* other tasks, main and the reconciliation loop are as they were; and beside
\* a failed task every task that is not over can take its next step, and so
\* can the loop.
C15_TaskFailureIsContained ==
    /\ [](\A i \in 1..NRecords :
             Failed(i) => /\ mainPc # "exited" /\ loopPc # "crashed"
                          /\ ENABLED runDDNSLoop
                          /\ \A j \in 1..NRecords :
                                Running(j) => ENABLED (FindExisting(j) \/ CreateHost(j)))
    /\ [][\A i \in 1..NRecords :
             (task'[i] # task[i] /\ task'[i].result = "error")
                => /\ \A j \in (1..MaxRecords) \ {i} : task'[j] = task[j]
                   /\ UNCHANGED <<loopVars, mainPc, exitCode, launchIdx, npmClient>>]_vars
C15_Witness ==
    /\ NRecords = 2 /\ Failed(1) /\ task[1].calls = <<"list-hosts">>
    /\ task[2].result = "created"
    /\ prev.ran /\ ipFile.exists

\* C16. data/last_ip.txt changes only in the step of the reconciliation loop
\* that follows its UPSERTs; that step is no step of main or of a task, and
\* no step of main or of a task changes the file, whatever the interleaving.
C16_OnlyTheLoopWritesStoredIP ==
    [][/\ ipFile' # ipFile
             => /\ loopPc = "upsert" /\ idx > NRecords /\ allUpdated /\ loopPc' = "sleep"
                /\ ipFile' = FileOf(publicIP)
                /\ UNCHANGED <<mainPc, launchIdx, task, npmHosts, npmClient, authTry>>
       /\ (task' # task \/ mainPc' # mainPc \/ launchIdx' # launchIdx \/ authTry' # authTry)
             => ipFile' = ipFile]_vars
C16_Witness ==
    /\ ipFile = FileOf(<<"1">>) /\ loopPc = "sleep" /\ tick.wrote = "ok"
    /\ NRecords = 2 /\ Running(1) /\ task[2].result = "created" /\ mainPc = "wait"

\* NPM_URL and NPM_IDENTITY are both set.
Configured == appConfig.NPMBaseURL /\ appConfig.NPMIdentity

\* C17. A task is started only for a record with a port, and only with the
\* controller configured and a client that authenticated; without the
\* configuration nothing is ever sent to the controller: no authentication
\* attempt (none failed, none gave a client) and no call of a task.
C17_ProxyOnlyWithPortAndClient ==
    /\ \A i \in 1..MaxRecords :
          Started(i) => /\ i <= NRecords /\ Records[i].Port > 0
                        /\ Configured /\ npmClient = "client"
    /\ ~Configured => /\ authTry = 0 /\ npmClient = "nil"
                       /\ \A i \in 1..MaxRecords : task[i] = NoTask
C17_Witness ==
    /\ mainPc = "wait" /\ Configured /\ npmClient = "client"
    /\ NRecords = 2 /\ Records[1].Port = 0 /\ ~Started(1)
    /\ Records[2].Port > 0 /\ task[2].calls = <<"list-hosts", "create-host">>

\* The IP of the runs in which no fetch, UPSERT, read or write fails.
CalmIP == getPublicIP(OKAnswer(<<"1", "\n">>)).ip

HostsOf(domainName) ==
    LET S == {h \in BagToSet(npmHosts) :
                \E j \in 1..Len(h.DomainNames) : h.DomainNames[j] = domainName}
        Count[T \in SUBSET S] ==
            IF T = {} THEN 0
            ELSE LET h == CHOOSE x \in T : TRUE IN CopiesIn(h, npmHosts) + Count[T \ {h}]
    IN Count[S]

\* C19. A create request is sent only by a task whose listing succeeded and
\* held no host of the domain; a listing that fails or holds the domain ends
\* the task without a create request. A task that runs after a host of its
\* domain was created (in this run or an earlier one) creates nothing: with
\* the tasks of one domain run one after the other, the domain has one host.
C19_CreateOnlyIfAbsent ==
    /\ [](\A i \in 1..NRecords :
             /\ task[i].pc = "create" => (task[i].calls = <<"list-hosts">> /\ ~Failed(i))
             /\ task[i].result = "exists" => (task[i].calls = <<"list-hosts">> /\ HostsOf(Records[i].RecordName) >= 1))
    /\ [][\A i \in 1..NRecords :
             /\ (task[i].pc = "find" /\ task'[i].pc = "create")
                   => ~HostListed(Records[i].RecordName)
             /\ (task[i].pc = "find" /\ task'[i] # task[i] /\ HostListed(Records[i].RecordName))
                   => (task'[i].pc = "done" /\ task'[i].calls = <<"list-hosts">>)
             /\ (task[i].pc = "find" /\ task'[i].result = "error")
                   => (task'[i].pc = "done" /\ task'[i].calls = <<"list-hosts">>)
             /\ npmHosts' # npmHosts
                   => \E j \in 1..NRecords :
                         /\ task[j].pc = "create" /\ task'[j].result = "created"
                         /\ HostsOf(Records[j].RecordName)' = HostsOf(Records[j].RecordName) + 1]_vars
C19_Witness ==
    /\ NRecords = 2 /\ Records[2].RecordName = "a.com"
    /\ task[1].result = "created" /\ task[2].result = "exists"
    /\ HostsOf("a.com") = 1

C21_ExitsOnlyAtStartup ==
    /\ [](build = "main"
            => /\ mainPc # "exited" => exitCode = 0
               /\ mainPc = "exited"
                     => /\ exitCode # 0 /\ loopPc = "notStarted" /\ npmClient = "nil"
                        /\ \A i \in 1..MaxRecords : task[i] = NoTask)
    /\ [][build = "main"
            => /\ (mainPc # "exited" /\ mainPc' = "exited")
                     => mainPc \in {"loadConfig", "awsConfig"}
               /\ mainPc \in {"auth", "spawnLoop", "launch", "wait"}
                     => mainPc' \in {"auth", "spawnLoop", "launch", "wait"}]_vars
C21_Witness ==
    /\ build = "main" /\ mainPc = "wait" /\ exitCode = 0
    /\ NRecords = 2 /\ Failed(1) /\ Succeeded(2)
    /\ prev.ran /\ loopPc = "fetch"

\* C22. A fetch that fails in transport or gets a status other than success
\* gives an error and no IP; a fetch that succeeds gives the body of the
\* answer without its surrounding whitespace and line terminators: in a
\* settled world, whose service answers settled.body, that is the publicIP of
\* every tick that has fetched.
C22_FetchTrimsBody ==
    /\ \A resp \in Responses :
          (resp.err \/ resp.StatusCode # StatusOK)
              => (Fetched(resp).err /\ Fetched(resp).ip = <<>>)
    /\ (settled.on /\ tick.fetched) => publicIP = TrimSpace(settled.body)

\* C23. A read of a key never written gives the empty value and no error, a
\* read that fails for another reason gives an error, and the loop tells the
\* two apart: a tick whose read of data/last_ip.txt failed does not go on as
\* if nothing had been stored, so it finds no drift, UPSERTs nothing and
\* writes nothing.
C23_ReadFailureIsNotAbsence ==
    /\ getStoredString(NoFile, FALSE) = [s |-> <<>>, err |-> FALSE]
    /\ getStoredString(ipFile, TRUE).err
    /\ tick.readErr => (~tick.drift /\ tick.ups = <<>> /\ tick.wrote = "no")

\* C25. In a tick that found drift every configured record gets exactly one
\* UPSERT attempt, in the order of the configuration: while the range loop
\* runs, the attempts made so far are those of the records before idx, one
\* each and in order, whether they failed or not; each pass adds the attempt
\* of the next record and moves on; and the tick ends with one attempt for
\* every record. A tick that found no drift attempts none.
C25_OneAttemptPerRecordInOrder ==
    /\ [](/\ Len(tick.ups) <= NRecords
          /\ \A k \in 1..Len(tick.ups) :
                /\ tick.ups[k].zone = Records[k].ZoneID
                /\ tick.ups[k].name = Records[k].RecordName
                /\ tick.ups[k].value = publicIP
          /\ loopPc = "upsert" => (tick.drift /\ Len(tick.ups) = idx - 1)
          /\ TickOver => Len(tick.ups) = (IF tick.drift THEN NRecords ELSE 0))
    /\ [][(loopPc = "upsert" /\ tick'.ups # tick.ups)
            => /\ Len(tick'.ups) = Len(tick.ups) + 1
               /\ idx' = idx + 1
               /\ loopPc' = "upsert"]_vars

\* The first of two records failed and the second was attempted all the same.
C25_Witness ==
    /\ TickOver /\ tick.drift /\ NRecords = 2
    /\ Len(tick.ups) = 2 /\ ~tick.ups[1].ok /\ tick.ups[2].ok
    /\ tick.ups[1].name # tick.ups[2].name

\* C26. A persistence failure in a tick is reported and not retried in the
\* tick: a read of data/last_ip.txt that failed has been logged; a write that
\* failed came after every record was upserted, has been logged, ended the
\* tick at once, and left in the file the value the tick read, which still
\* differs from the fetched one, so that the next tick finds the same drift.
C26_PersistenceFailureReported ==
    /\ tick.readErr => "read" \in tick.log
    /\ tick.wrote = "failed"
          => /\ "write" \in tick.log
             /\ TickOver
             /\ AllUpserted(tick.ups, publicIP)
             /\ ~tick.readErr => (StoredValue = storedIP /\ StoredValue # publicIP)

\* C27. Over all the tasks of one run, at most one create request is sent for
\* a domain name, also when two records carry the same name.
C27_OneCreateRequestPerDomain ==
    \A i, j \in 1..NRecords :
       (/\ Records[i].RecordName = Records[j].RecordName
        /\ Len(task[i].calls) = 2 /\ task[i].calls[2] = "create-host"
        /\ Len(task[j].calls) = 2 /\ task[j].calls[2] = "create-host")
           => i = j

\* C28. In main.go with the controller configured, the loop and the tasks
\* start only once NewNpmClient has returned: until main is past the
\* authentication there is no loop, no tick has fetched and no task exists;
\* main gets past it only by an attempt that succeeds or by the failure of
\* attempt AuthAttempts; and the loop is started by main's next step.
C28_LoopStartsAfterAuthentication ==
    /\ []((build = "main" /\ Configured /\ mainPc \in {"loadConfig", "awsConfig", "auth"})
            => /\ loopPc = "notStarted"
               /\ ~tick.fetched /\ ~prev.ran
               /\ \A i \in 1..MaxRecords : task[i] = NoTask)
    /\ [][(build = "main" /\ Configured)
            => /\ (mainPc = "auth" /\ mainPc' # "auth")
                     => (npmClient' = "client" \/ authTry = AuthAttempts - 1)
               /\ (loopPc = "notStarted" /\ loopPc' # "notStarted")
                     => (mainPc = "spawnLoop" /\ loopPc' = "fetch" /\ ~tick'.fetched)
               /\ \A i \in 1..MaxRecords :
                     (task[i] = NoTask /\ task'[i] # NoTask)
                         => (mainPc = "launch" /\ loopPc # "notStarted")]_vars

\* The first tick has fetched, after five failed attempts left main without a
\* client.
C28_Witness ==
    /\ build = "main" /\ Configured /\ npmClient = "nil"
    /\ ~prev.ran /\ tick.fetched /\ loopPc = "read"

====
